---- MODULE Spec2Model ----
(***************************************************************************)
(* CHAT engine core: streaming ingestion (chat_engine/core/ingest.py) and  *)
(* field normalization (chat_engine/core/normalize.py).                    *)
(*                                                                         *)
(* Text is modelled as a sequence of characters (one-character strings),   *)
(* so that trimming, suffixing, decimal formatting, UTF-8 encoding and     *)
(* timestamp parsing are computed, not assumed.  Two tokens stand for one  *)
(* non-ASCII character each: "U+00E9" and "U+20AC".                        *)
(***************************************************************************)
EXTENDS Integers, Sequences, FiniteSets, TLC

VARIABLES
    openpyxl,      \* TRUE iff the module-level import of openpyxl succeeded
    lines,         \* the source table: header line first, then the data lines
    pc,            \* position of the caller / generator
    kind,          \* which reader the generator object belongs to
    handle,        \* the file / workbook handle: "none", "open", "closed"
    sheet_name,    \* argument of iter_xlsx_rows
    headers,       \* fieldnames (csv) or deduplicated headers (xlsx)
    pos,           \* number of lines the underlying reader has consumed
    idx,           \* last value produced by enumerate(..., start=1); 0 before
    rows_seen,     \* generator local
    rows_emitted,  \* generator local
    emitted,       \* the IngestRow records yielded so far, in order
    stats,         \* the generator's return value (IngestStats)
    err,           \* the exception that reached the caller, or "none"
    errAt,         \* "call": raised by the constructing call; "pull": by next()
    mapping,       \* the SchemaMapping of the run
    msgs,          \* NormalizedMessage records produced so far, in order
    normErr        \* exception raised by normalize_row, or "none"

vars == << openpyxl, lines, pc, kind, handle, sheet_name, headers, pos, idx,
           rows_seen, rows_emitted, emitted, stats, err, errAt,
           mapping, msgs, normErr >>

streamVars == << pc, kind, handle, sheet_name, headers, pos, idx,
                 rows_seen, rows_emitted, emitted, stats, err, errAt >>

-----------------------------------------------------------------------------
(* Bounds of the model.                                                    *)

MaxCols == 3
MaxRows == 2
MaxMsgRows == 2

-----------------------------------------------------------------------------
(* Python values.                                                          *)

\* Python's None where a text value is expected.
NoneVal == << "<None>" >>

\* A line the underlying reader cannot decode (csv.Error, a broken sheet row).
Corrupt == << << "<corrupt>" >> >>

NoStats == [rows_seen |-> -1, rows_emitted |-> -1]

IngestStats(seen, out) == [rows_seen |-> seen, rows_emitted |-> out]

IngestRow(d, n) == [data |-> d, source_row |-> n]

-----------------------------------------------------------------------------
(* Text primitives.                                                        *)

Ascii ==
 << " ", "!", "\"", "#", "$", "%", "&", "'", "(", ")", "*", "+", ",", "-", ".", "/",
    "0", "1", "2", "3", "4", "5", "6", "7", "8", "9", ":", ";", "<", "=", ">", "?",
    "@", "A", "B", "C", "D", "E", "F", "G", "H", "I", "J", "K", "L", "M", "N", "O",
    "P", "Q", "R", "S", "T", "U", "V", "W", "X", "Y", "Z", "[", "\\", "]", "^", "_",
    "<backtick>", "a", "b", "c", "d", "e", "f", "g", "h", "i", "j", "k", "l", "m", "n", "o",
    "p", "q", "r", "s", "t", "u", "v", "w", "x", "y", "z", "{", "|", "}", "~" >>

Digits == << "0", "1", "2", "3", "4", "5", "6", "7", "8", "9" >>

IsSpace(c) == c \in { " ", "\t", "\n", "\r" }

IsDigit(c) == c \in { Digits[i] : i \in 1..10 }

DigitVal(c) == (CHOOSE i \in 1..10 : Digits[i] = c) - 1

RECURSIVE LStrip(_)
LStrip(s) ==
    IF s # <<>> /\ IsSpace(Head(s)) THEN LStrip(Tail(s)) ELSE s

RECURSIVE RStrip(_)
RStrip(s) ==
    IF s # <<>> /\ IsSpace(s[Len(s)]) THEN RStrip(SubSeq(s, 1, Len(s) - 1)) ELSE s

\* str.strip()
Strip(s) == RStrip(LStrip(s))

\* The element of a one-element set.  The({ F(v) : v \in { e } }) is F(e) with e
\* evaluated once, whatever the number of places F uses it at.
The(S) == CHOOSE x \in S : TRUE

\* str(n) for an integer n >= 0
RECURSIVE Dec(_)
Dec(n) ==
    IF n < 10 THEN << Digits[n + 1] >> ELSE Dec(n \div 10) \o << Digits[(n % 10) + 1] >>

\* An insertion-ordered dict: a sequence of <<key, value>> with distinct keys.
DictHas(d, k) == \E i \in 1..Len(d) : d[i][1] = k

DictGet(d, k, default) ==
    IF DictHas(d, k) THEN d[CHOOSE i \in 1..Len(d) : d[i][1] = k][2] ELSE default

DictSet(d, k, v) ==
    IF DictHas(d, k)
    THEN [i \in 1..Len(d) |-> IF d[i][1] = k THEN << k, v >> ELSE d[i]]
    ELSE Append(d, << k, v >>)

\* dict(pairs) / a dict comprehension: later pairs overwrite earlier ones.
RECURSIVE DictFrom(_, _)
DictFrom(d, pairs) ==
    IF pairs = <<>> THEN d
    ELSE The({ DictFrom(d2, Tail(pairs)) :
                 d2 \in { DictSet(d, Head(pairs)[1], Head(pairs)[2]) } })

DictKeys(d) == [i \in 1..Len(d) |-> d[i][1]]

-----------------------------------------------------------------------------
(* ingest.py                                                               *)

_safe_str(v) == IF v = NoneVal THEN <<>> ELSE Strip(v)

\* Path(path).suffix.lower() of the paths the model opens.
Lower(ext) ==
    CASE ext = ".CSV" -> ".csv"
      [] ext = ".XLSX" -> ".xlsx"
      [] OTHER -> ext

\* "csv", "xlsx", or "ValueError" for the raise.
sniff_input_type(ext) ==
    IF Lower(ext) = ".csv" THEN "csv"
    ELSE IF Lower(ext) \in { ".xlsx", ".xlsm" } THEN "xlsx"
    ELSE "ValueError"

\* out.append(base if count == 1 else f"{base}_{count}")
_dedupe_step(base, count) ==
    IF count = 1 THEN base ELSE base \o << "_" >> \o Dec(count)

RECURSIVE _dedupe_loop(_, _, _)
_dedupe_loop(hs, seen, out) ==
    IF hs = <<>> THEN out
    ELSE LET h     == Head(hs)
             base  == IF h # <<>> THEN h ELSE << "C", "O", "L" >>
             count == DictGet(seen, base, 0) + 1
         IN  _dedupe_loop(Tail(hs), DictSet(seen, base, count),
                          Append(out, _dedupe_step(base, count)))

_dedupe_headers(hs) == _dedupe_loop(hs, <<>>, <<>>)

\* The generator's frame: its locals, and what has reached the caller.
Frame ==
    [ pc |-> pc, handle |-> handle, headers |-> headers, pos |-> pos, idx |-> idx,
      rows_seen |-> rows_seen, rows_emitted |-> rows_emitted, emitted |-> emitted,
      stats |-> stats, err |-> err, errAt |-> errAt ]

Resume(f) ==
    /\ pc' = f.pc
    /\ handle' = f.handle
    /\ headers' = f.headers
    /\ pos' = f.pos
    /\ idx' = f.idx
    /\ rows_seen' = f.rows_seen
    /\ rows_emitted' = f.rows_emitted
    /\ emitted' = f.emitted
    /\ stats' = f.stats
    /\ err' = f.err
    /\ errAt' = f.errAt

\* Leaving the block of `with p.open(...) as f` on any path closes f.
WithExit(h) == "closed"

\* A finally block without wb.close(), for comparison.
FinallyClose_Leak(h) == h

\* finally: wb.close()
FinallyClose(h) == "closed"

\* An enumerate that stops counting at 1, for comparison.
EnumNext_Stuck(i) == IF i = 0 THEN 1 ELSE i

\* enumerate(..., start=1): the index that follows i (i = 0: none produced yet).
EnumNext(i) == i + 1

\* A return that reports the counters' initial values, for comparison.
Returned_InitialCounters(f, seen, out, h) ==
    [f EXCEPT !.pc = "returned", !.handle = h, !.stats = IngestStats(0, 0)]

\* return IngestStats(...) inside the generator
Returned(f, seen, out, h) ==
    [f EXCEPT !.pc = "returned", !.handle = h, !.stats = IngestStats(seen, out)]

Raised(f, e, h) ==
    [f EXCEPT !.pc = "raised", !.handle = h, !.err = e, !.errAt = "pull"]

\* yield IngestRow(data=..., source_row=idx), after the two counters' increments
Yielded(f, j, data) ==
    [f EXCEPT !.pc = "suspended", !.pos = j, !.idx = EnumNext(f.idx),
              !.rows_seen = f.rows_seen + 1, !.rows_emitted = f.rows_emitted + 1,
              !.emitted = Append(f.emitted, IngestRow(data, EnumNext(f.idx)))]

\* csv.DictReader.fieldnames: the first line, None when the file has no line.
DictReader_fieldnames == IF lines = <<>> THEN NoneVal ELSE lines[1]

\* csv.DictReader.__next__ skips the lines csv.reader returns as [].
RECURSIVE SkipBlank(_)
SkipBlank(j) ==
    IF j <= Len(lines) /\ lines[j] = <<>> THEN SkipBlank(j + 1) ELSE j

Min(a, b) == IF a < b THEN a ELSE b

\* csv.DictReader.__next__: dict(zip(fieldnames, row)), then restval (None) for
\* the fieldnames past the row's width.  (A longer row's surplus goes under the
\* key None, which no fieldname equals.)
DictReader_row(fieldnames, row) ==
    LET lf == Len(fieldnames)
        lr == Len(row)
        d  == DictFrom(<<>>, [i \in 1..Min(lf, lr) |-> << fieldnames[i], row[i] >>])
    IN  IF lf > lr
        THEN DictFrom(d, [i \in 1..(lf - lr) |-> << fieldnames[lr + i], NoneVal >>])
        ELSE d

\* cleaned = {k: _safe_str(row.get(k)) for k in fieldnames}
CsvCleaned(fieldnames, row) ==
    LET d == DictReader_row(fieldnames, row)
    IN  DictFrom(<<>>, [i \in 1..Len(fieldnames) |->
                          << fieldnames[i], _safe_str(DictGet(d, fieldnames[i], NoneVal)) >>])

\* iter_csv_rows, the for loop: from next(reader) to the next yield, return or raise
CsvLoop(f) ==
    LET j == SkipBlank(f.pos + 1)
    IN  IF j > Len(lines)
        THEN Returned([f EXCEPT !.pos = Len(lines)], f.rows_seen, f.rows_emitted,
                      WithExit(f.handle))
        ELSE IF lines[j] = Corrupt
        THEN Raised([f EXCEPT !.pos = j], "csv.Error", WithExit(f.handle))
        ELSE Yielded(f, j, CsvCleaned(f.headers, lines[j]))

\* iter_csv_rows from its first statement
CsvStart(f) ==
    LET g == [f EXCEPT !.handle = "open"]
    IN  IF DictReader_fieldnames = NoneVal
        THEN Returned(g, 0, 0, WithExit(g.handle))
        ELSE CsvLoop([g EXCEPT !.headers = DictReader_fieldnames, !.pos = 1])

\* ws.iter_rows(values_only=True): an empty cell reads as None
XlsxValues(line) == [i \in 1..Len(line) |-> IF line[i] = <<>> THEN NoneVal ELSE line[i]]

\* data = {headers[i]: _safe_str(values[i]) if i < len(values) else "" ...}
XlsxData(hs, values) ==
    DictFrom(<<>>, [i \in 1..Len(hs) |->
                      << hs[i], IF i <= Len(values) THEN _safe_str(values[i]) ELSE <<>> >>])

\* any(headers)
AnyTruthy(hs) == \E i \in 1..Len(hs) : hs[i] # <<>>

\* The workbook's sheets; wb.active is its first.
SheetNone == "<None>"
Sheets == { "Sheet1" }

\* iter_xlsx_rows, the for loop
XlsxLoop(f) ==
    LET j == f.pos + 1
    IN  IF j > Len(lines)
        THEN Returned(f, f.rows_seen, f.rows_emitted, FinallyClose(f.handle))
        ELSE IF lines[j] = Corrupt
        THEN Raised([f EXCEPT !.pos = j], "ReaderError", FinallyClose(f.handle))
        ELSE Yielded(f, j, XlsxData(f.headers, XlsxValues(lines[j])))

\* iter_xlsx_rows from its first statement
XlsxStart(f) ==
    IF ~openpyxl THEN Raised(f, "RuntimeError", f.handle)
    ELSE
    LET g  == [f EXCEPT !.handle = "open"]
        hs == IF lines = <<>> THEN <<>>
              ELSE [i \in 1..Len(lines[1]) |-> _safe_str(XlsxValues(lines[1])[i])]
    IN  IF sheet_name \notin { SheetNone, "" } /\ sheet_name \notin Sheets
        THEN Raised(g, "KeyError", FinallyClose(g.handle))
        ELSE IF lines = <<>>
        THEN Returned(g, 0, 0, FinallyClose(g.handle))
        ELSE IF ~AnyTruthy(hs)
        THEN Returned([g EXCEPT !.pos = 1], 0, 0, FinallyClose(g.handle))
        ELSE XlsxLoop([g EXCEPT !.headers = _dedupe_headers(hs), !.pos = 1])

-----------------------------------------------------------------------------
(* normalize.py: text                                                      *)

\* str.split() with no argument: the maximal runs of non-whitespace.
RECURSIVE SplitWs(_, _, _)
SplitWs(s, cur, out) ==
    IF s = <<>> THEN (IF cur = <<>> THEN out ELSE Append(out, cur))
    ELSE IF IsSpace(Head(s))
    THEN SplitWs(Tail(s), <<>>, IF cur = <<>> THEN out ELSE Append(out, cur))
    ELSE SplitWs(Tail(s), Append(cur, Head(s)), out)

\* sep.join(parts)
RECURSIVE Join(_, _)
Join(parts, sep) ==
    IF parts = <<>> THEN <<>>
    ELSE IF Len(parts) = 1 THEN parts[1]
    ELSE parts[1] \o sep \o Join(Tail(parts), sep)

\* (v or "")
OrEmpty(v) == IF v = NoneVal THEN <<>> ELSE v

_clean_party(v) == Join(SplitWs(Strip(OrEmpty(v)), <<>>, <<>>), << " " >>)

\* ord(c)
Ord(c) ==
    CASE c = "\t" -> 9
      [] c = "\n" -> 10
      [] c = "\r" -> 13
      [] c = "U+00E9" -> 233
      [] c = "U+20AC" -> 8364
      [] OTHER -> 31 + (CHOOSE i \in 1..Len(Ascii) : Ascii[i] = c)

Utf8Char(cp) ==
    IF cp < 128 THEN << cp >>
    ELSE IF cp < 2048 THEN << 192 + (cp \div 64), 128 + (cp % 64) >>
    ELSE << 224 + (cp \div 4096), 128 + ((cp \div 64) % 64), 128 + (cp % 64) >>

\* text.encode("utf-8", errors="replace")
RECURSIVE Utf8(_)
Utf8(s) == IF s = <<>> THEN <<>> ELSE Utf8Char(Ord(Head(s))) \o Utf8(Tail(s))

-----------------------------------------------------------------------------
(* normalize.py: the 32 bit FNV 1a hash.  A 32 bit value is held as its    *)
(* four bytes, least significant first, so that no intermediate product    *)
(* leaves the range of the checker's integers.                            *)

\* h = 2166136261 (0x811C9DC5)
FnvOffsetBasis == << 197, 157, 28, 129 >>

\* 16777619 (0x01000193)
FnvPrime == 16777619

Limbs(n) == << n % 256, (n \div 256) % 256, (n \div 65536) % 256, (n \div 16777216) % 256 >>

RECURSIVE Xor8(_, _, _)
Xor8(a, b, bits) ==
    IF bits = 0 THEN 0
    ELSE (IF (a % 2) # (b % 2) THEN 1 ELSE 0) + 2 * Xor8(a \div 2, b \div 2, bits - 1)

\* h ^= b, for a byte b
XorByte(h, b) == [h EXCEPT ![1] = Xor8(h[1], b, 8)]

\* (h * k) & 0xFFFFFFFF
MulMask32(h, k) ==
    LET c0 == h[1] * k[1]
        c1 == h[1] * k[2] + h[2] * k[1] + (c0 \div 256)
        c2 == h[1] * k[3] + h[2] * k[2] + h[3] * k[1] + (c1 \div 256)
        c3 == h[1] * k[4] + h[2] * k[3] + h[3] * k[2] + h[4] * k[1] + (c2 \div 256)
    IN  << c0 % 256, c1 % 256, c2 % 256, c3 % 256 >>

\* FNV-1 (multiply, then xor), for comparison.
_fnv1a_step_MulThenXor(h, b) == XorByte(MulMask32(h, Limbs(FnvPrime)), b)

\* h ^= b; h = (h * 16777619) & 0xFFFFFFFF
_fnv1a_step(h, b) == MulMask32(XorByte(h, b), Limbs(FnvPrime))

\* for b in bytes: ...
RECURSIVE _fnv1a_loop(_, _)
_fnv1a_loop(h, bytes) ==
    IF bytes = <<>> THEN h
    ELSE The({ _fnv1a_loop(h2, Tail(bytes)) : h2 \in { _fnv1a_step(h, Head(bytes)) } })

_fnv1a_32(text) == The({ _fnv1a_loop(FnvOffsetBasis, bytes) : bytes \in { Utf8(text) } })

\* str(h) for a 32 bit value: repeated division of the four bytes by ten
LimbsDivTen(h) ==
    LET q4 == h[4] \div 10
        r4 == h[4] % 10
        q3 == (r4 * 256 + h[3]) \div 10
        r3 == (r4 * 256 + h[3]) % 10
        q2 == (r3 * 256 + h[2]) \div 10
        r2 == (r3 * 256 + h[2]) % 10
        q1 == (r2 * 256 + h[1]) \div 10
        r1 == (r2 * 256 + h[1]) % 10
    IN  [q |-> << q1, q2, q3, q4 >>, r |-> r1]

RECURSIVE LimbsDec(_)
LimbsDec(h) ==
    The({ IF d.q = << 0, 0, 0, 0 >> THEN << Digits[d.r + 1] >>
          ELSE LimbsDec(d.q) \o << Digits[d.r + 1] >> : d \in { LimbsDivTen(h) } })

\* base = f"{ts_raw}|{sender}|{recipient}"; return str(_fnv1a_32(base))
_stable_key(ts_raw, sender, recipient) ==
    LimbsDec(_fnv1a_32(ts_raw \o << "|" >> \o sender \o << "|" >> \o recipient))

-----------------------------------------------------------------------------
(* normalize.py: the calendar of datetime (proleptic Gregorian ordinals,   *)
(* ordinal 1 = 0001-01-01, a Monday).  A datetime is held as its ordinal,  *)
(* its second of the day and its microsecond, with the UTC offset in       *)
(* seconds when it is aware.                                               *)

IsLeap(y) == (y % 4 = 0) /\ ((y % 100 # 0) \/ (y % 400 = 0))

DaysInMonth(y, m) ==
    IF m = 2 THEN (IF IsLeap(y) THEN 29 ELSE 28)
    ELSE IF m \in { 4, 6, 9, 11 } THEN 30 ELSE 31

RECURSIVE DaysBeforeMonth(_, _)
DaysBeforeMonth(y, m) ==
    IF m = 1 THEN 0 ELSE DaysBeforeMonth(y, m - 1) + DaysInMonth(y, m - 1)

DaysBeforeYear(y) ==
    LET p == y - 1 IN p * 365 + (p \div 4) - (p \div 100) + (p \div 400)

Ymd2Ord(y, m, d) == DaysBeforeYear(y) + DaysBeforeMonth(y, m) + d

\* datetime.max.toordinal()
MaxOrdinal == Ymd2Ord(9999, 12, 31)

\* date.fromordinal
Ord2Ymd(n0) ==
    LET n    == n0 - 1
        n400 == n \div 146097
        r400 == n % 146097
        n100 == r400 \div 36524
        r100 == r400 % 36524
        n4   == r100 \div 1461
        r4   == r100 % 1461
        n1   == r4 \div 365
        r1   == r4 % 365
        year == n400 * 400 + 1 + n100 * 100 + n4 * 4 + n1
    IN  IF n1 = 4 \/ n100 = 4 THEN [Y |-> year - 1, m |-> 12, d |-> 31]
        ELSE LET mm == CHOOSE k \in 1..12 :
                         /\ DaysBeforeMonth(year, k) <= r1
                         /\ r1 < DaysBeforeMonth(year, k) + DaysInMonth(year, k)
             IN  [Y |-> year, m |-> mm, d |-> r1 - DaysBeforeMonth(year, mm) + 1]

Fail == [ok |-> FALSE]

\* datetime(Y, m, d, H, M, S, us): ValueError for a field out of range
MakeDateTime(Y, m, d, H, M, S, us, aware, off) ==
    IF /\ Y \in 1..9999
       /\ m \in 1..12
       /\ d >= 1
       /\ d <= DaysInMonth(Y, m)
       /\ H \in 0..23
       /\ M \in 0..59
       /\ S \in 0..59
    THEN [ok |-> TRUE, ord |-> Ymd2Ord(Y, m, d), sec |-> H * 3600 + M * 60 + S,
          us |-> us, aware |-> aware, off |-> off]
    ELSE Fail

AllDigits(s) == \A i \in 1..Len(s) : IsDigit(s[i])

RECURSIVE NumFrom(_, _)
NumFrom(s, acc) ==
    IF s = <<>> THEN acc ELSE NumFrom(Tail(s), acc * 10 + DigitVal(Head(s)))

\* int(s) for a run of digits
Num(s) == NumFrom(s, 0)

\* A fraction of a second of one to six digits, in microseconds.
RECURSIVE Micros(_)
Micros(s) == IF Len(s) >= 6 THEN Num(s) ELSE Micros(Append(s, "0"))

-----------------------------------------------------------------------------
(* datetime.fromisoformat, for the texts of the shape                      *)
(*   YYYY-MM-DD[*HH[:MM[:SS[.fff[fff]]]][(+|-)HH:MM]]                      *)
(* that every supported interpreter reads alike; any other text is one the *)
(* model's inputs do not hold, and is read as a ValueError.                *)

\* str.find: the index of the first c in s, 0 when there is none
RECURSIVE Find(_, _, _)
Find(s, cs, i) ==
    IF i > Len(s) THEN 0 ELSE IF s[i] \in cs THEN i ELSE Find(s, cs, i + 1)

IsoTimeFields(t) ==
    LET n  == Len(t)
        hh == SubSeq(t, 1, 2)
        mm == SubSeq(t, 4, 5)
        ss == SubSeq(t, 7, 8)
        ff == SubSeq(t, 10, n)
    IN  IF /\ n \in { 2, 5, 8, 12, 15 }
           /\ AllDigits(hh)
           /\ n >= 5 => (t[3] = ":" /\ AllDigits(mm))
           /\ n >= 8 => (t[6] = ":" /\ AllDigits(ss))
           /\ n >= 12 => (t[9] = "." /\ AllDigits(ff))
        THEN [ok |-> TRUE, H |-> Num(hh),
              M |-> IF n >= 5 THEN Num(mm) ELSE 0,
              S |-> IF n >= 8 THEN Num(ss) ELSE 0,
              us |-> IF n >= 12 THEN Micros(ff) ELSE 0]
        ELSE Fail

fromisoformat_of(s) ==
    LET n    == Len(s)
        tstr == SubSeq(s, 12, n)
        zpos == LET minus == Find(tstr, { "-" }, 1)
                IN  IF minus > 0 THEN minus ELSE Find(tstr, { "+" }, 1)
        tpart == IF zpos > 0 THEN SubSeq(tstr, 1, zpos - 1) ELSE tstr
        zpart == SubSeq(tstr, zpos + 1, Len(tstr))
        tf   == IF n = 10 THEN [ok |-> TRUE, H |-> 0, M |-> 0, S |-> 0, us |-> 0]
                ELSE IsoTimeFields(tpart)
        zf   == IF zpos = 0 THEN Fail
                ELSE IF Len(zpart) = 5 THEN IsoTimeFields(zpart) ELSE Fail
        sign == IF zpos > 0 /\ tstr[zpos] = "-" THEN -1 ELSE 1
    IN  IF \/ n < 10
           \/ n = 11
           \/ ~AllDigits(SubSeq(s, 1, 4))
           \/ s[5] # "-"
           \/ ~AllDigits(SubSeq(s, 6, 7))
           \/ s[8] # "-"
           \/ ~AllDigits(SubSeq(s, 9, 10))
           \/ ~tf.ok
           \/ (zpos > 0 /\ ~zf.ok)
        THEN Fail
        ELSE IF zpos > 0 /\ zf.H * 60 + zf.M >= 24 * 60
        THEN Fail
        ELSE MakeDateTime(Num(SubSeq(s, 1, 4)), Num(SubSeq(s, 6, 7)),
                          Num(SubSeq(s, 9, 10)), tf.H, tf.M, tf.S, tf.us,
                          zpos > 0,
                          IF zpos > 0 THEN sign * (zf.H * 3600 + zf.M * 60) ELSE 0)

fromisoformat(text) == The({ fromisoformat_of(s) : s \in { text } })

\* if s.endswith("Z"): s = s[:-1] + "+00:00"; return datetime.fromisoformat(s)
_try_fromiso(s) ==
    IF s # <<>> /\ s[Len(s)] = "Z"
    THEN fromisoformat(SubSeq(s, 1, Len(s) - 1) \o << "+", "0", "0", ":", "0", "0" >>)
    ELSE fromisoformat(s)

-----------------------------------------------------------------------------
(* datetime.strptime.  A format is a sequence of directives ("%Y", ...)    *)
(* and literal characters.  A numeric directive followed by a literal, or  *)
(* ending the format, has to take the whole run of digits it stands at;    *)
(* a blank in the format takes a run of one or more blanks.                *)

RECURSIVE DigitRun(_)
DigitRun(s) ==
    IF s # <<>> /\ IsDigit(Head(s)) THEN << Head(s) >> \o DigitRun(Tail(s)) ELSE <<>>

RECURSIVE SpaceRun(_)
SpaceRun(s) == IF s # <<>> /\ IsSpace(Head(s)) THEN 1 + SpaceRun(Tail(s)) ELSE 0

IsDirective(t) == t \in { "%Y", "%m", "%d", "%H", "%M", "%S", "%y", "%f" }

\* Whether the digits run of directive t is one its pattern accepts.
DirectiveOk(t, run) ==
    LET n == Len(run)
        v == Num(run)
    IN  CASE t = "%Y" -> n = 4
          [] t = "%y" -> n = 2
          [] t = "%m" -> n \in 1..2 /\ v \in 1..12
          [] t = "%d" -> n \in 1..2 /\ v \in 1..31
          [] t = "%H" -> n \in 1..2 /\ v \in 0..23
          [] t = "%M" -> n \in 1..2 /\ v \in 0..59
          [] t = "%S" -> n \in 1..2 /\ v \in 0..61
          [] t = "%f" -> n \in 1..6

DirectiveSet(acc, t, run) ==
    LET v == Num(run)
    IN  CASE t = "%Y" -> [acc EXCEPT !.Y = v]
          [] t = "%y" -> [acc EXCEPT !.Y = IF v <= 68 THEN 2000 + v ELSE 1900 + v]
          [] t = "%m" -> [acc EXCEPT !.m = v]
          [] t = "%d" -> [acc EXCEPT !.d = v]
          [] t = "%H" -> [acc EXCEPT !.H = v]
          [] t = "%M" -> [acc EXCEPT !.M = v]
          [] t = "%S" -> [acc EXCEPT !.S = v]
          [] t = "%f" -> [acc EXCEPT !.us = Micros(run)]

\* Literals match without regard to case.
LiteralMatches(t, c) == c = t \/ (t = "T" /\ c = "t")

RECURSIVE StrptimeMatch(_, _, _)
StrptimeMatch(s, fmt, acc) ==
    IF fmt = <<>> THEN (IF s = <<>> THEN acc ELSE Fail)
    ELSE LET t == Head(fmt)
         IN  IF IsDirective(t)
             THEN The({ IF DirectiveOk(t, run)
                        THEN The({ StrptimeMatch(rest, Tail(fmt), DirectiveSet(acc, t, run)) :
                                     rest \in { SubSeq(s, Len(run) + 1, Len(s)) } })
                        ELSE Fail : run \in { DigitRun(s) } })
             ELSE IF t = " "
             THEN IF SpaceRun(s) >= 1
                  THEN The({ StrptimeMatch(rest, Tail(fmt), acc) :
                               rest \in { SubSeq(s, SpaceRun(s) + 1, Len(s)) } })
                  ELSE Fail
             ELSE IF s # <<>> /\ LiteralMatches(t, Head(s))
             THEN StrptimeMatch(Tail(s), Tail(fmt), acc)
             ELSE Fail

\* datetime.strptime(s, fmt), None for its ValueError
_try_strptime(s, fmt) ==
    The({ IF r.ok THEN MakeDateTime(r.Y, r.m, r.d, r.H, r.M, r.S, r.us, FALSE, 0) ELSE Fail :
          r \in { StrptimeMatch(s, fmt,
                     [ok |-> TRUE, Y |-> 1900, m |-> 1, d |-> 1, H |-> 0, M |-> 0, S |-> 0,
                      us |-> 0]) } })

FmtYmd == << "%Y", "-", "%m", "-", "%d" >>
FmtMdY == << "%m", "/", "%d", "/", "%Y" >>
FmtMdy == << "%m", "/", "%d", "/", "%y" >>
FmtHMS == << "%H", ":", "%M", ":", "%S" >>
FmtHM == << "%H", ":", "%M" >>

\* The formats of parse_timestamp_to_utc_iso, in its order.
Formats ==
    << FmtYmd \o << " " >> \o FmtHMS,
       FmtYmd \o << " " >> \o FmtHM,
       FmtMdY \o << " " >> \o FmtHMS,
       FmtMdY \o << " " >> \o FmtHM,
       FmtMdy \o << " " >> \o FmtHMS,
       FmtMdy \o << " " >> \o FmtHM,
       FmtYmd \o << "T" >> \o FmtHMS,
       FmtYmd \o << "T" >> \o FmtHMS \o << ".", "%f" >> >>

\* for fmt in (...): dt = _try_strptime(s, fmt); if dt is not None: break
RECURSIVE TryFormats(_, _)
TryFormats(s, i) ==
    IF i > Len(Formats) THEN Fail
    ELSE The({ IF dt.ok THEN dt ELSE TryFormats(s, i + 1) :
                 dt \in { _try_strptime(s, Formats[i]) } })

-----------------------------------------------------------------------------
(* ZoneInfo("America/New_York"), the default assume_tz: the UTC offset, in *)
(* seconds, of a wall time (fold = 0).  Local mean time until 1883; from   *)
(* 1987 daylight time from the first Sunday of April to the last Sunday of *)
(* October, and since 2007 from the second Sunday of March to the first    *)
(* Sunday of November.  The inputs of the model hold no year in between.   *)

RECURSIVE SundayFrom(_)
SundayFrom(o) == IF o % 7 = 0 THEN o ELSE SundayFrom(o + 1)

NewYorkOffset(dt) ==
    LET Y     == Ord2Ymd(dt.ord).Y
        start == IF Y >= 2007 THEN SundayFrom(Ymd2Ord(Y, 3, 8))
                 ELSE SundayFrom(Ymd2Ord(Y, 4, 1))
        end   == IF Y >= 2007 THEN SundayFrom(Ymd2Ord(Y, 11, 1))
                 ELSE SundayFrom(Ymd2Ord(Y, 10, 25))
        dst   == /\ dt.ord > start \/ (dt.ord = start /\ dt.sec >= 3 * 3600)
                 /\ dt.ord < end \/ (dt.ord = end /\ dt.sec < 2 * 3600)
    IN  CASE Y <= 1882 -> 0 - 17762
          [] Y >= 1987 -> IF dst THEN 0 - 14400 ELSE 0 - 18000

\* dt.replace(tzinfo=ZoneInfo(assume_tz))
Localize(dt) == [dt EXCEPT !.aware = TRUE, !.off = NewYorkOffset(dt)]

\* dt.astimezone(timezone.utc): (dt - offset), OverflowError out of datetime's range
astimezone_utc(dt) ==
    LET t == dt.sec - dt.off + 2 * 86400
        o == dt.ord + (t \div 86400) - 2
    IN  IF o < 1 \/ o > MaxOrdinal THEN [ok |-> FALSE, exc |-> "OverflowError"]
        ELSE [ok |-> TRUE, ord |-> o, sec |-> t % 86400, us |-> dt.us,
              aware |-> TRUE, off |-> 0]

\* "%0*d"
RECURSIVE Pad(_, _)
Pad(s, width) == IF Len(s) >= width THEN s ELSE Pad(<< "0" >> \o s, width)

\* datetime.isoformat() of an aware UTC datetime
isoformat(dt) ==
    LET c == Ord2Ymd(dt.ord)
    IN  Pad(Dec(c.Y), 4) \o << "-" >> \o Pad(Dec(c.m), 2) \o << "-" >> \o Pad(Dec(c.d), 2)
        \o << "T" >> \o Pad(Dec(dt.sec \div 3600), 2)
        \o << ":" >> \o Pad(Dec((dt.sec \div 60) % 60), 2)
        \o << ":" >> \o Pad(Dec(dt.sec % 60), 2)
        \o (IF dt.us # 0 THEN << "." >> \o Pad(Dec(dt.us), 6) ELSE <<>>)
        \o << "+", "0", "0", ":", "0", "0" >>

\* str.replace(old, new)
RECURSIVE Replace(_, _, _)
Replace(s, old, new) ==
    IF Len(s) < Len(old) THEN s
    ELSE IF SubSeq(s, 1, Len(old)) = old
    THEN new \o Replace(SubSeq(s, Len(old) + 1, Len(s)), old, new)
    ELSE << Head(s) >> \o Replace(Tail(s), old, new)

\* dt = _try_fromiso(s); if dt is None: for fmt in (...): ...
ParseAny(s) ==
    The({ IF iso.ok THEN iso ELSE TryFormats(s, 1) : iso \in { _try_fromiso(s) } })

\* if dt.tzinfo is None: dt = dt.replace(...);  dt_utc = dt.astimezone(timezone.utc)
ToUtc(dt) ==
    The({ astimezone_utc(aware) : aware \in { IF dt.aware THEN dt ELSE Localize(dt) } })

\* return dt_utc.isoformat().replace("+00:00", "Z")
Rendered(utc) ==
    IF ~utc.ok THEN [exc |-> utc.exc, val |-> NoneVal]
    ELSE [exc |-> "none",
          val |-> Replace(isoformat(utc), << "+", "0", "0", ":", "0", "0" >>, << "Z" >>)]

\* parse_timestamp_to_utc_iso: [exc, val], val = NoneVal for None
parse_timestamp_to_utc_iso(ts_raw) ==
    The({ IF s = <<>> THEN [exc |-> "none", val |-> NoneVal]
          ELSE The({ IF ~dt.ok THEN [exc |-> "none", val |-> NoneVal]
                     ELSE The({ Rendered(utc) : utc \in { ToUtc(dt) } }) :
                     dt \in { ParseAny(s) } }) :
          s \in { Strip(OrEmpty(ts_raw)) } })

-----------------------------------------------------------------------------
(* normalize.py: normalize_row                                             *)

\* `if mapping.uniqid_col:` -- neither None nor the empty string
Truthy(v) == v # NoneVal /\ v # <<>>

\* (data.get(col, "") or "")
Get(data, col) == OrEmpty(DictGet(data, col, <<>>))

\* A normalizer that never reads the id column, for comparison.
ExplicitId_Ignored(data, m) == <<>>

\* msg_id = ""; if mapping.uniqid_col: msg_id = (data.get(...) or "").strip()
ExplicitId(data, m) ==
    IF Truthy(m.uniqid_col) THEN Strip(Get(data, m.uniqid_col)) ELSE <<>>

\* f"ROW{row.source_row}:{_stable_key(ts_raw, sender, recipient)}"
SyntheticId(source_row, ts_raw, sender, recipient) ==
    << "R", "O", "W" >> \o Dec(source_row) \o << ":" >>
        \o _stable_key(ts_raw, sender, recipient)

\* [exc, msg]: msg is the NormalizedMessage when exc = "none"
normalize_row(row, m) ==
    LET data      == row.data
        ts_raw    == Strip(Get(data, m.timestamp_col))
        sender    == _clean_party(DictGet(data, m.from_col, <<>>))
        recipient == _clean_party(DictGet(data, m.to_col, <<>>))
        body      == Strip(Get(data, m.message_col))
        thread_id == IF Truthy(m.thread_col) THEN Strip(Get(data, m.thread_col)) ELSE <<>>
        explicit  == ExplicitId(data, m)
        msg_id    == IF explicit = <<>>
                     THEN SyntheticId(row.source_row, ts_raw, sender, recipient)
                     ELSE explicit
        ts        == parse_timestamp_to_utc_iso(ts_raw)
    IN  [ exc |-> ts.exc,
          msg |-> [ msg_id |-> msg_id, source_row |-> row.source_row, ts_raw |-> ts_raw,
                    ts_utc |-> ts.val, sender |-> sender, recipient |-> recipient,
                    body |-> body, thread_id |-> thread_id ] ]

-----------------------------------------------------------------------------
(* The caller's operations on a stream.                                    *)

Exts == { ".csv", ".CSV", ".xlsx", ".xlsm", ".txt" }
SheetArgs == { SheetNone, "Sheet1", "Missing" }

\* A call of a generator function: the generator object is created and none of
\* the function's body runs.
Created(k, sheet) ==
    /\ pc' = "created"
    /\ kind' = k
    /\ sheet_name' = sheet
    /\ UNCHANGED << handle, headers, pos, idx, rows_seen, rows_emitted, emitted,
                    stats, err, errAt >>

iter_csv_rows ==
    /\ pc = "idle"
    /\ Created("csv", SheetNone)
    /\ UNCHANGED << openpyxl, lines, mapping, msgs, normErr >>

iter_xlsx_rows ==
    /\ pc = "idle"
    /\ \E sheet \in SheetArgs : Created("xlsx", sheet)
    /\ UNCHANGED << openpyxl, lines, mapping, msgs, normErr >>

\* iter_rows_auto is an ordinary function: sniff_input_type runs in the call.
iter_rows_auto ==
    /\ pc = "idle"
    /\ \E ext \in Exts, sheet \in SheetArgs :
         LET t == sniff_input_type(ext)
         IN  IF t = "ValueError"
             THEN /\ pc' = "call_raised"
                  /\ err' = "ValueError"
                  /\ errAt' = "call"
                  /\ UNCHANGED << kind, handle, sheet_name, headers, pos, idx,
                                  rows_seen, rows_emitted, emitted, stats >>
             ELSE IF t = "csv" THEN Created("csv", SheetNone)
             ELSE Created("xlsx", sheet)
    /\ UNCHANGED << openpyxl, lines, mapping, msgs, normErr >>

\* next(gen) on a csv stream
next_csv ==
    /\ kind = "csv"
    /\ pc \in { "created", "suspended" }
    /\ Resume(IF pc = "created" THEN CsvStart(Frame) ELSE CsvLoop(Frame))
    /\ UNCHANGED << openpyxl, lines, kind, sheet_name, mapping, msgs, normErr >>

\* next(gen) on a spreadsheet stream
next_xlsx ==
    /\ kind = "xlsx"
    /\ pc \in { "created", "suspended" }
    /\ Resume(IF pc = "created" THEN XlsxStart(Frame) ELSE XlsxLoop(Frame))
    /\ UNCHANGED << openpyxl, lines, kind, sheet_name, mapping, msgs, normErr >>

\* gen.close(): GeneratorExit is raised at the yield the generator is suspended
\* at, and the with / finally around it runs; a generator that never started
\* just ends.
close ==
    /\ pc \in { "created", "suspended" }
    /\ pc' = "closed"
    /\ handle' = IF pc = "created" THEN handle
                 ELSE IF kind = "csv" THEN WithExit(handle) ELSE FinallyClose(handle)
    /\ UNCHANGED << openpyxl, lines, kind, sheet_name, headers, pos, idx, rows_seen,
                    rows_emitted, emitted, stats, err, errAt, mapping, msgs, normErr >>

-----------------------------------------------------------------------------
(* Inputs of the ingestion model.                                          *)

HeaderNames == { <<>>, << "M" >>, << "M", "_", "2" >> }

HeaderLists == UNION { [1..n -> HeaderNames] : n \in 0..MaxCols }

DataLines == { << << " ", "a", " " >>, << "b" >> >>, <<>>, Corrupt }

DataBlocks == UNION { [1..n -> DataLines] : n \in 0..MaxRows }

\* The empty file, or a header line followed by data lines.
Tables == { <<>> } \cup { << h >> \o rs : h \in HeaderLists, rs \in DataBlocks }

NoMapping ==
    [ timestamp_col |-> <<>>, from_col |-> <<>>, to_col |-> <<>>, message_col |-> <<>>,
      uniqid_col |-> NoneVal, thread_col |-> NoneVal ]

-----------------------------------------------------------------------------
(* Inputs of the normalization model: delimited-text exports with the      *)
(* columns of the repository's tests.                                      *)

ColTimestamp == << "t", "i", "m", "e", "s", "t", "a", "m", "p" >>

ColFrom == << "f", "r", "o", "m" >>

ColTo == << "t", "o" >>

ColMessage == << "m", "e", "s", "s", "a", "g", "e" >>

ColUniqid == << "u", "n", "i", "q", "i", "d" >>

ColThread == << "t", "h", "r", "e", "a", "d" >>

ColWhen == << "w", "h", "e", "n" >>

RowTest ==
    << << "2", "0", "2", "6", "-", "0", "2", "-", "2", "1", " ", "1", "0", ":", "0", "0", ":", "0", "0" >>,
       << " ", " ", "A", "l", "i", "c", "e", " ", " ", " ", "G", "r", "i", "z", "z", " " >>,
       << "B", "o", "b" >>,
       << "H", "e", "l", "l", "o" >>,
       << "a", "b", "c" >> >>

RowNoId ==
    << << "2", "0", "2", "6", "-", "0", "2", "-", "2", "1", " ", "1", "0", ":", "0", "0", ":", "0", "0" >>,
       << "A", "l", "i", "c", "e", " ", "G", "r", "i", "z", "z" >>,
       << "B", "o", "b" >>,
       << "H", "i" >>,
       <<>> >>

RowFarFuture ==
    << << "9", "9", "9", "9", "-", "1", "2", "-", "3", "1", " ", "2", "3", ":", "5", "9", ":", "5", "9" >>,
       << "B", "o", "b" >>,
       << "A", "l", "i", "c", "e" >>,
       << "x" >>,
       << "a", "b", "c" >> >>

RowEmpty ==
    << <<>>,
       <<>>,
       <<>>,
       <<>>,
       << " ", " " >> >>

RowUnparsed ==
    << << "n", "/", "a" >>,
       << "Z", "o", "U+00E9" >>,
       << "U+20AC" >>,
       << "\t", "o", "k" >>,
       << "7" >> >>

\* Its id column holds the text the fallback gives RowNoId as the second data row.
RowLooksSynthetic ==
    << << "0", "2", "/", "2", "1", "/", "2", "6", " ", "1", "0", ":", "0", "0" >>,
       << "B", "o", "b" >>,
       <<>>,
       <<>>,
       << "R", "O", "W", "2", ":", "1", "6", "5", "7", "4", "9", "8", "3", "6", "8" >> >>

RowAware ==
    << << "2", "0", "2", "6", "-", "0", "7", "-", "0", "4", "T", "1", "2", ":", "3", "0", ":", "0", "0", ".", "2", "5", "0", "0", "0", "0", "+", "0", "2", ":", "0", "0" >>,
       << "a", " ", " ", "b" >>,
       << "c" >>,
       << "d" >>,
       << " ", "a", "b", "c", " " >> >>

MsgHeaders ==
    { << ColTimestamp, ColFrom, ColTo, ColMessage, ColUniqid >>,
      << ColTimestamp, ColFrom, ColTo, ColMessage >> }

MsgLines ==
    { RowTest, RowNoId, RowFarFuture, RowEmpty, RowUnparsed, RowLooksSynthetic, RowAware }

MsgBlocks == UNION { [1..n -> MsgLines] : n \in 0..MaxMsgRows }

MsgTables == { << h >> \o rs : h \in MsgHeaders, rs \in MsgBlocks }

SchemaMapping(uniqid, thread, ts) ==
    [ timestamp_col |-> ts, from_col |-> ColFrom, to_col |-> ColTo,
      message_col |-> ColMessage, uniqid_col |-> uniqid, thread_col |-> thread ]

Mappings ==
    { SchemaMapping(ColUniqid, NoneVal, ColTimestamp),
      SchemaMapping(NoneVal, ColThread, ColTimestamp),
      SchemaMapping(<<>>, NoneVal, ColWhen) }

StreamInit ==
    /\ pc = "idle"
    /\ kind = "none"
    /\ handle = "none"
    /\ sheet_name = SheetNone
    /\ headers = <<>>
    /\ pos = 0
    /\ idx = 0
    /\ rows_seen = 0
    /\ rows_emitted = 0
    /\ emitted = <<>>
    /\ stats = NoStats
    /\ err = "none"
    /\ errAt = "none"

Init ==
    /\ openpyxl \in BOOLEAN
    /\ lines \in Tables
    /\ StreamInit
    /\ mapping = NoMapping
    /\ msgs = <<>>
    /\ normErr = "none"

Next ==
    \/ iter_rows_auto
    \/ iter_csv_rows
    \/ iter_xlsx_rows
    \/ next_csv
    \/ next_xlsx
    \/ close

Spec == Init /\ [][Next]_vars

-----------------------------------------------------------------------------
(* A run: one csv stream normalized row by row with one SchemaMapping.     *)

\* The consumer normalizes the next record it has pulled.
NormalizeRow ==
    /\ normErr = "none"
    /\ Len(msgs) < Len(emitted)
    /\ LET r == normalize_row(emitted[Len(msgs) + 1], mapping)
       IN  IF r.exc = "none"
           THEN msgs' = Append(msgs, r.msg) /\ normErr' = normErr
           ELSE msgs' = msgs /\ normErr' = r.exc
    /\ UNCHANGED << openpyxl, lines, mapping, streamVars >>

InitNorm ==
    /\ openpyxl = TRUE
    /\ lines \in MsgTables
    /\ StreamInit
    /\ mapping \in Mappings
    /\ msgs = <<>>
    /\ normErr = "none"

NextNorm ==
    \/ iter_csv_rows
    \/ next_csv
    \/ NormalizeRow

SpecNorm == InitNorm /\ [][NextNorm]_vars

-----------------------------------------------------------------------------
(* Properties of the row readers.                                          *)

Terminal == { "returned", "raised", "closed" }

\* The data lines of the source: every line after the header line.
DataLineCount == IF lines = <<>> THEN 0 ELSE Len(lines) - 1

\* Every data line is a record the reader can decode (none blank, none broken).
WellFormed == \A i \in 2..Len(lines) : lines[i] # <<>> /\ lines[i] # Corrupt

\* C1: a csv stream over well-formed input numbers its records 1, 2, ... in
\* file order, never emits more than it has seen, and once exhausted has
\* emitted every data line and reports rows_seen = rows_emitted = their count.
C1_RowsNumberedAndCounted ==
    (kind = "csv" /\ WellFormed) =>
        /\ \A k \in 1..Len(emitted) :
             /\ emitted[k].source_row = k
             /\ emitted[k].data = CsvCleaned(lines[1], lines[k + 1])
        /\ rows_emitted <= rows_seen
        /\ pc = "returned" =>
             /\ Len(emitted) = DataLineCount
             /\ stats = IngestStats(DataLineCount, DataLineCount)

C1_Witness ==
    /\ kind = "csv"
    /\ WellFormed
    /\ pc = "returned"
    /\ Len(emitted) = 2
    /\ stats = IngestStats(2, 2)

\* C2: no way a stream can end (exhaustion, the early returns, the caller's
\* close, an error) leaves the handle it opened open.
C2_HandleReleased == pc \in Terminal => handle # "open"

C2_Witness ==
    /\ kind = "xlsx"
    /\ pc = "closed"
    /\ Len(emitted) = 1
    /\ Len(lines) = 3
    /\ handle = "closed"

\* C3: an unsupported extension and a missing openpyxl are both raised by the
\* call that constructs the stream, before any record is requested.
C3_ConfigErrorsAtOpen ==
    err \in { "ValueError", "RuntimeError" } => errAt = "call"

Distinct(seq) == \A i, j \in 1..Len(seq) : i # j => seq[i] # seq[j]

\* C7: the deduplicated headers of a spreadsheet stream are as many as the
\* header cells and pairwise distinct.
C7_HeadersCollisionFree ==
    (kind = "xlsx" /\ pc = "suspended") =>
        /\ Len(headers) = Len(lines[1])
        /\ Distinct(headers)

\* The duplicate-header policy as the specification words it: a blank name
\* counts as "COL"; the first occurrence of a name is kept, its k-th occurrence
\* (k >= 2) is name_k.
PolicyBase(h) == IF Strip(h) = <<>> THEN << "C", "O", "L" >> ELSE Strip(h)

PolicyKey(hs, i) ==
    LET k == Cardinality({ j \in 1..i : PolicyBase(hs[j]) = PolicyBase(hs[i]) })
    IN  IF k = 1 THEN PolicyBase(hs[i])
        ELSE PolicyBase(hs[i]) \o << "_" >> \o Dec(k)

\* The header row repeats a (non-blank) name.
RepeatsName(hs) ==
    \E i, j \in 1..Len(hs) : i # j /\ hs[i] = hs[j] /\ Strip(hs[i]) # <<>>

\* C8, for the delimited-text variant: when the header row repeats a name,
\* every emitted record has one key per header column, in column order and
\* named by the duplicate-header policy, each holding the trimmed value of its
\* own column.
C8_OneKeyPerColumn ==
    (kind = "csv" /\ pc = "suspended" /\ RepeatsName(lines[1])) =>
        LET rec  == emitted[Len(emitted)]
            line == lines[pos]
            n    == Len(lines[1])
        IN  /\ DictKeys(rec.data) = [i \in 1..n |-> PolicyKey(lines[1], i)]
            /\ \A i \in 1..n :
                 DictGet(rec.data, PolicyKey(lines[1], i), NoneVal)
                   = IF i <= Len(line) THEN Strip(line[i]) ELSE <<>>

\* No header row, or a header row whose every cell is blank.
BlankHeader ==
    lines = <<>> \/ \A i \in 1..Len(lines[1]) : Strip(lines[1][i]) = <<>>

\* The stream could be opened: spreadsheet support is there and the sheet exists.
Opened ==
    /\ kind \in { "csv", "xlsx" }
    /\ kind = "xlsx" => (openpyxl /\ sheet_name \in { SheetNone } \cup Sheets)

\* C9: with no header row or an entirely blank one (and nothing but decodable
\* lines after it), either variant emits no record, raises no error and ends
\* with IngestStats(0, 0).
C9_BlankHeaderEmptyStream ==
    (BlankHeader /\ Opened /\ WellFormed) =>
        /\ emitted = <<>>
        /\ pc # "raised"
        /\ pc = "returned" => stats = IngestStats(0, 0)

-----------------------------------------------------------------------------
(* Properties of the normalizer.                                           *)

\* The record the k-th message was produced from.
RecordOf(k) == emitted[k]

\* The unique-id column is configured, present in the record, and not blank.
HasExplicitId(k) ==
    /\ mapping.uniqid_col # NoneVal
    /\ mapping.uniqid_col # <<>>
    /\ DictHas(RecordOf(k).data, mapping.uniqid_col)
    /\ Strip(DictGet(RecordOf(k).data, mapping.uniqid_col, <<>>)) # <<>>

\* "ROW" + decimal n + ":" + one or more decimal digits
HasSyntheticForm(id, n) ==
    LET prefix == << "R", "O", "W" >> \o Dec(n) \o << ":" >>
    IN  /\ Len(id) > Len(prefix)
        /\ SubSeq(id, 1, Len(prefix)) = prefix
        /\ AllDigits(SubSeq(id, Len(prefix) + 1, Len(id)))

\* C4 as stated: any two messages of a run have different msg_id.
C4_IdsUniqueInRun == \A i, j \in 1..Len(msgs) : i # j => msgs[i].msg_id # msgs[j].msg_id

\* C4 amended: two messages of a run that both carry a synthesized id have
\* different ids (their source_row differs), and two that both carry the id
\* column's value have the same id exactly when the trimmed values are equal.
C4_SyntheticIdsUnique ==
    \A i, j \in 1..Len(msgs) :
        i # j =>
            /\ (~HasExplicitId(i) /\ ~HasExplicitId(j)) => msgs[i].msg_id # msgs[j].msg_id
            /\ (HasExplicitId(i) /\ HasExplicitId(j)) =>
                 ( msgs[i].msg_id = msgs[j].msg_id
                     <=> Strip(DictGet(RecordOf(i).data, mapping.uniqid_col, <<>>))
                           = Strip(DictGet(RecordOf(j).data, mapping.uniqid_col, <<>>)) )

\* Two rows that hash alike (same timestamp text, sender and recipient), both
\* given synthesized ids.
C4_Witness ==
    /\ Len(msgs) = 2
    /\ ~HasExplicitId(1)
    /\ ~HasExplicitId(2)
    /\ msgs[1].ts_raw = msgs[2].ts_raw
    /\ msgs[1].sender = msgs[2].sender
    /\ msgs[1].recipient = msgs[2].recipient
    /\ msgs[1].ts_raw # <<>>

\* C5: msg_id is the record's unique-id value itself when the column is
\* configured, present and not blank, and has the synthesized form otherwise.
C5_ExplicitIdVerbatim ==
    \A k \in 1..Len(msgs) :
        IF HasExplicitId(k)
        THEN msgs[k].msg_id = DictGet(RecordOf(k).data, mapping.uniqid_col, <<>>)
        ELSE HasSyntheticForm(msgs[k].msg_id, RecordOf(k).source_row)

\* The id cell of the source line is " abc "; the record, and the id, hold "abc".
C5_Witness ==
    \E k \in 1..Len(msgs) :
        /\ HasExplicitId(k)
        /\ lines[k + 1][5] = << " ", "a", "b", "c", " " >>
        /\ msgs[k].msg_id = << "a", "b", "c" >>

\* FNV-1a over 32 bits as the specification words it, on the value's two 16 bit
\* halves [hi, lo]: xor the byte into the low bits, then multiply by
\* 16777619 = 2^24 + 403 modulo 2^32.
RefXorMul(h, b) ==
    LET lo == (h.lo \div 256) * 256 + Xor8(h.lo % 256, b, 8)
        p  == lo * 403
    IN  [hi |-> (h.hi * 403 + (p \div 65536) + (lo % 256) * 256) % 65536,
         lo |-> p % 65536]

RECURSIVE RefFnv(_, _)
RefFnv(h, bytes) ==
    IF bytes = <<>> THEN h
    ELSE The({ RefFnv(h2, Tail(bytes)) : h2 \in { RefXorMul(h, Head(bytes)) } })

\* The decimal digits of hi * 65536 + lo.
RECURSIVE RefDec(_)
RefDec(h) ==
    LET t == (h.hi % 10) * 65536 + h.lo
        q == [hi |-> h.hi \div 10, lo |-> t \div 10]
    IN  IF q.hi = 0 /\ q.lo = 0 THEN << Digits[(t % 10) + 1] >>
        ELSE RefDec(q) \o << Digits[(t % 10) + 1] >>

\* 2166136261 = 33052 * 65536 + 40389
RefKey(text) == RefDec(RefFnv([hi |-> 33052, lo |-> 40389], Utf8(text)))

\* C6: a synthesized msg_id is "ROW" + source_row + ":" + the decimal 32 bit
\* FNV-1a hash of the UTF-8 bytes of ts_raw|sender|recipient (the message's
\* own cleaned fields), the hash being a value of four bytes.
C6_SyntheticIdIsFnv1a ==
    \A k \in 1..Len(msgs) :
        ~HasExplicitId(k) =>
            LET base == msgs[k].ts_raw \o << "|" >> \o msgs[k].sender
                          \o << "|" >> \o msgs[k].recipient
            IN  /\ msgs[k].msg_id
                     = << "R", "O", "W" >> \o Dec(RecordOf(k).source_row) \o << ":" >>
                         \o RefKey(base)
                /\ Len(_fnv1a_32(base)) = 4
                /\ \A i \in 1..4 : _fnv1a_32(base)[i] \in 0..255

\* The second data row, without an id, gets ROW2:1657498368.
C6_Witness ==
    /\ Len(msgs) = 2
    /\ ~HasExplicitId(2)
    /\ msgs[2].sender = << "A", "l", "i", "c", "e", " ", "G", "r", "i", "z", "z" >>
    /\ msgs[2].msg_id = << "R", "O", "W", "2", ":",
                           "1", "6", "5", "7", "4", "9", "8", "3", "6", "8" >>

\* C10: normalize_row never raises; each message keeps its record's
\* source_row, a mapped column the record lacks gives the empty string, and
\* ts_raw keeps the record's timestamp text.
C10_NormalizeNeverRaises ==
    /\ normErr = "none"
    /\ \A k \in 1..Len(msgs) :
         /\ msgs[k].source_row = RecordOf(k).source_row
         /\ msgs[k].ts_raw = DictGet(RecordOf(k).data, mapping.timestamp_col, <<>>)
         /\ ~DictHas(RecordOf(k).data, mapping.timestamp_col) => msgs[k].ts_utc = NoneVal
         /\ (mapping.thread_col # NoneVal /\ ~DictHas(RecordOf(k).data, mapping.thread_col))
              => msgs[k].thread_id = <<>>

====
